---- MODULE Spec2Model ----
(***************************************************************************)
(* Model of tnabtaf/Papers: the paper index (PaperLibrary), the main       *)
(* pipeline of matchPapers.py (ingest, verify, matchup, report, history    *)
(* write-back) and the Matchup module (Matchup, reportPaper).              *)
(*                                                                         *)
(* Strings that the code slices, normalises or sorts (titles, search       *)
(* labels) are sequences of one-character strings.  Strings that are only  *)
(* compared for equality (DOIs, author names, comments) are TLA+ strings.  *)
(* Python's None is the string "None" for such fields.                     *)
(***************************************************************************)
EXTENDS Integers, Sequences, FiniteSets, TLC

(***************************************************************************)
(* Bounds of the model.                                                    *)
(***************************************************************************)
\* largest number of sightings one run ingests
MaxPapers == 3
\* longest title Title.strip is given on its own
MaxTitleLen == 3

None == "None"

(***************************************************************************)
(* Characters and strings.                                                 *)
(***************************************************************************)
UpperChars == {"A", "B", "C", "D"}
LowerChars == {"a", "b", "c", "d"}
DigitChars == {"1", "2"}
\* a letter outside ASCII
OtherLetters == {"é"}

\* code point of a character (ASCII), as Python's str comparison uses it
Ord(c) ==
    CASE c = " " -> 32 [] c = "!" -> 33 [] c = "-" -> 45
      [] c = "1" -> 49 [] c = "2" -> 50
      [] c = "A" -> 65 [] c = "B" -> 66 [] c = "C" -> 67 [] c = "D" -> 68
      [] c = "_" -> 95
      [] c = "a" -> 97 [] c = "b" -> 98 [] c = "c" -> 99 [] c = "d" -> 100
      [] c = "é" -> 233

\* str.lower() on one character
LowerChar(c) ==
    CASE c = "A" -> "a" [] c = "B" -> "b" [] c = "C" -> "c" [] c = "D" -> "d"
      [] OTHER -> c

\* str.lower()
Lower(s) == [i \in 1..Len(s) |-> LowerChar(s[i])]

\* the characters the regular expression class \w matches: letters, digits
\* and the underscore
IsWordChar(c) ==
    c \in UpperChars \cup LowerChars \cup DigitChars \cup OtherLetters \cup {"_"}

\* s from its first word character on
RECURSIVE DropLeadingNonWord(_)
DropLeadingNonWord(s) ==
    IF Len(s) = 0 \/ IsWordChar(Head(s)) THEN s
    ELSE DropLeadingNonWord(Tail(s))

\* s without its first run of non-word characters
RECURSIVE DropFirstNonWordRun(_)
DropFirstNonWordRun(s) ==
    IF Len(s) = 0 THEN s
    ELSE IF IsWordChar(Head(s)) THEN <<Head(s)>> \o DropFirstNonWordRun(Tail(s))
    ELSE DropLeadingNonWord(Tail(s))

\* re.sub(r'\W+', '', title.lower(), 1): only the first run is removed
strip_FirstRunOnly(title) == DropFirstNonWordRun(Lower(title))

\* Title.strip: re.sub(r'\W+', '', title.lower())
strip(title) == SelectSeq(Lower(title), IsWordChar)

\* Python's < on str: lexicographic by code point, a proper prefix is smaller
RECURSIVE StrLess(_, _)
StrLess(s, t) ==
    IF Len(t) = 0 THEN FALSE
    ELSE IF Len(s) = 0 THEN TRUE
    ELSE IF Ord(s[1]) # Ord(t[1]) THEN Ord(s[1]) < Ord(t[1])
    ELSE StrLess(Tail(s), Tail(t))

\* sorted(keys): the ascending sequence of a finite set of strings
RECURSIVE SortedStrs(_)
SortedStrs(S) ==
    IF S = {} THEN <<>>
    ELSE LET m == CHOOSE x \in S : \A y \in S \ {x} : StrLess(x, y)
         IN  <<m>> \o SortedStrs(S \ {m})

\* a Python dict: a function; d[k] = v adds or replaces one key
DictSet(d, k, v) == (k :> v) @@ d
EmptyDict == <<>>

(***************************************************************************)
(* Paper sightings.  The paper classes live in the per-source modules      *)
(* (GoogleScholar, WOS, ...): a sighting is a record of the fields the     *)
(* index and the reports read.                                             *)
(***************************************************************************)
\* paper.getTitleLower()
getTitleLower(paper) == strip(paper.title)

\* paper.getFirstAuthorLastNameLower()
getFirstAuthorLastNameLower(paper) == paper.firstAuthor

\* type(paper).__name__ == "GSPaper" and paper.titleIsTruncated()
IsTruncatedGSPaper(paper) == paper.className = "GSPaper" /\ paper.truncated

\* Python truthiness of paper.doi (None and "" are both false)
HasDoi(paper) == paper.doi # None /\ paper.doi # ""

MkPaper(title, doi, search, author, cls, trunc) ==
    [title |-> title, doi |-> doi, search |-> search, firstAuthor |-> author,
     className |-> cls, truncated |-> trunc]

TitleFull == <<"A", "b", " ", "c", "d">>
TitleVariant == <<"a", "b", "-", "C", "D", "!">>
TitleOther == <<"B", "_", "1">>
\* what a source that cuts titles after 4 characters makes of TitleFull
TitleCut == <<"A", "b", " ", "c">>
\* a cut title whose normal form is the normal form of TitleFull
TitleCutSame == <<"A", "b", "-", "c", "d">>

\* a title print() cannot write to an ASCII terminal
TitleAccent == <<"A", "a", "é">>

SearchA == <<"a", "1">>
SearchB == <<"B", "2">>

\* the sightings the alert emails of a run can hold
PaperPool ==
    {MkPaper(TitleFull, d, SearchB, "lee", "WOSPaper", FALSE) :
        d \in {None, "10.1/a", "10.1/b", "10.1/c"}}
    \cup {MkPaper(TitleVariant, d, SearchA, "kim", "SDPaper", FALSE) :
        d \in {None, "10.1/a"}}
    \cup {MkPaper(TitleOther, "10.1/a", SearchA, None, "WileyPaper", FALSE),
          MkPaper(TitleCut, None, SearchA, "lee", "GSPaper", TRUE),
          MkPaper(TitleCutSame, None, SearchB, "lee", "GSPaper", TRUE)}

(***************************************************************************)
(* PaperLibrary (Papers.py, and its copy in matchPapers.py).  A library is *)
(* a record of the four dicts of __init__.  byTitleLower maps a normalised *)
(* title to its group, the list of sightings in arrival order; titleOrder  *)
(* is the insertion order of its keys.  A length cache maps a title prefix *)
(* to a reference to a group list of byTitleLower: the reference is the    *)
(* key under which byTitleLower holds that list (lists are never rebound). *)
(***************************************************************************)
\* PaperLibrary.__init__
NewPaperLibrary ==
    [byTitleLower |-> EmptyDict,
     titleOrder |-> <<>>,
     byDoi |-> EmptyDict,
     by1stAuthorLastNameLower |-> EmptyDict,
     titleLenCaches |-> EmptyDict]

\* the attributes a PaperLibrary instance has: those __init__ sets
PaperLibraryAttrs ==
    {"byTitleLower", "byDoi", "by1stAuthorLastNameLower", "titleLenCaches"}

\* d[k].append(x), creating d[k] = [] first when k is not a key
DictAppend(d, k, x) ==
    IF k \in DOMAIN d THEN [d EXCEPT ![k] = Append(@, x)]
    ELSE DictSet(d, k, <<x>>)

\* lines 63-71 of addPaper: the DOI index and the first-author index
AddToSecondaryIndices(lib, paper) ==
    LET firstAuthorLower == getFirstAuthorLastNameLower(paper)
    IN  [lib EXCEPT
          !.byDoi = IF HasDoi(paper) THEN DictAppend(@, paper.doi, paper) ELSE @,
          !.by1stAuthorLastNameLower = DictAppend(@, firstAuthorLower, paper)]

\* self.byTitleLower[titleLower] = [] for a title that is not yet a key
NewGroup(lib, titleLower) ==
    [lib EXCEPT !.byTitleLower = DictSet(@, titleLower, <<>>),
                !.titleOrder = Append(@, titleLower)]

\* self.byTitleLower[titleLower].insert(0, paper): the newest sighting first
AppendToGroup_Prepends(lib, titleLower, paper) ==
    [lib EXCEPT !.byTitleLower[titleLower] = <<paper>> \o @]

\* self.byTitleLower[titleLower].append(paper)
AppendToGroup(lib, titleLower, paper) ==
    [lib EXCEPT !.byTitleLower[titleLower] = Append(@, paper)]

\* lines 57-58: register the new group in every existing length cache,
\* under titleLower itself
RegisterInCaches(lib, titleLower) ==
    [lib EXCEPT !.titleLenCaches =
        [length \in DOMAIN @ |-> DictSet(@[length], titleLower, titleLower)]]

\* The outcome of a call: the object's state afterwards and the exception
\* that left the call, None when it returned.
Returned(lib) == [lib |-> lib, raised |-> None]
Raised(lib, exc) == [lib |-> lib, raised |-> exc]

\* lines 41-53 and 59: a truncated GSPaper whose title is not a key
AddTruncatedPaper(lib, paper, titleLower) ==
    LET truncLen == Len(paper.title)
        \* line 46
        withCache ==
            IF truncLen \notin DOMAIN lib.titleLenCaches
            THEN [lib EXCEPT !.titleLenCaches = DictSet(@, truncLen, EmptyDict)]
            ELSE lib
    IN  IF truncLen \notin DOMAIN lib.titleLenCaches
           /\ "byLowerTitle" \notin PaperLibraryAttrs
        THEN \* line 47 reads self.byLowerTitle, which no PaperLibrary has
             Raised(withCache, "AttributeError")
        ELSE IF titleLower \notin DOMAIN withCache.titleLenCaches[truncLen]
        THEN \* lines 52-53, then 59 and the secondary indices
             LET created == NewGroup(withCache, titleLower)
                 cached == [created EXCEPT !.titleLenCaches[truncLen] =
                               DictSet(@, titleLower, titleLower)]
             IN  Returned(AddToSecondaryIndices(
                     AppendToGroup(cached, titleLower, paper), paper))
        ELSE \* cache hit: line 59 indexes byTitleLower by a title that is
             \* not one of its keys
             Raised(withCache, "KeyError")

\* addPaper appending only to a group that exists: the sighting that
\* creates a group is not put into it
addPaper_NoFirstAppend(lib, paper) ==
    LET titleLower == getTitleLower(paper)
    IN  IF titleLower \notin DOMAIN lib.byTitleLower
        THEN IF IsTruncatedGSPaper(paper)
             THEN AddTruncatedPaper(lib, paper, titleLower)
             ELSE Returned(AddToSecondaryIndices(
                      RegisterInCaches(NewGroup(lib, titleLower), titleLower),
                      paper))
        ELSE Returned(AddToSecondaryIndices(
                 AppendToGroup(lib, titleLower, paper), paper))

\* addPaper keying the groups by the title without lower-casing it
addPaper_NoLowerCase(lib, paper) ==
    LET titleLower == SelectSeq(paper.title, IsWordChar)
    IN  IF titleLower \notin DOMAIN lib.byTitleLower
        THEN Returned(AddToSecondaryIndices(
                 AppendToGroup(NewGroup(lib, titleLower), titleLower, paper), paper))
        ELSE Returned(AddToSecondaryIndices(
                 AppendToGroup(lib, titleLower, paper), paper))

\* PaperLibrary.addPaper
addPaper(lib, paper) ==
    LET titleLower == getTitleLower(paper)
    IN  IF titleLower \notin DOMAIN lib.byTitleLower
        THEN IF IsTruncatedGSPaper(paper)
             THEN AddTruncatedPaper(lib, paper, titleLower)
             ELSE Returned(AddToSecondaryIndices(
                      AppendToGroup(
                          RegisterInCaches(NewGroup(lib, titleLower), titleLower),
                          titleLower, paper),
                      paper))
        ELSE Returned(AddToSecondaryIndices(
                 AppendToGroup(lib, titleLower, paper), paper))

\* one conflict message of verifyConsistentDois (lines 87-89)
DoiWarning(paper, doi) ==
    [title |-> paper.title, doiA |-> doi, doiB |-> paper.doi]

\* the inner loop leaving the group at its first conflict
RECURSIVE VerifyGroupDois_StopAtFirst(_, _, _)
VerifyGroupDois_StopAtFirst(papersWithTitle, i, doi) ==
    IF i > Len(papersWithTitle) THEN <<>>
    ELSE LET paper == papersWithTitle[i]
         IN  IF ~HasDoi(paper)
             THEN VerifyGroupDois_StopAtFirst(papersWithTitle, i + 1, doi)
             ELSE IF doi = None
             THEN VerifyGroupDois_StopAtFirst(papersWithTitle, i + 1, paper.doi)
             ELSE IF doi # paper.doi
             THEN <<DoiWarning(paper, doi)>>
             ELSE VerifyGroupDois_StopAtFirst(papersWithTitle, i + 1, doi)

\* the inner loop without the test `if paper.doi`
RECURSIVE VerifyGroupDois_NoDoiTest(_, _, _)
VerifyGroupDois_NoDoiTest(papersWithTitle, i, doi) ==
    IF i > Len(papersWithTitle) THEN <<>>
    ELSE LET paper == papersWithTitle[i]
         IN  IF doi = None
             THEN VerifyGroupDois_NoDoiTest(papersWithTitle, i + 1, paper.doi)
             ELSE IF doi # paper.doi
             THEN <<DoiWarning(paper, doi)>>
                  \o VerifyGroupDois_NoDoiTest(papersWithTitle, i + 1, doi)
             ELSE VerifyGroupDois_NoDoiTest(papersWithTitle, i + 1, doi)

\* the inner loop of verifyConsistentDois over one group, from sighting i,
\* with the local variable doi
RECURSIVE VerifyGroupDois(_, _, _)
VerifyGroupDois(papersWithTitle, i, doi) ==
    IF i > Len(papersWithTitle) THEN <<>>
    ELSE LET paper == papersWithTitle[i]
         IN  IF ~HasDoi(paper)
             THEN VerifyGroupDois(papersWithTitle, i + 1, doi)
             ELSE IF doi = None
             THEN VerifyGroupDois(papersWithTitle, i + 1, paper.doi)
             ELSE IF doi # paper.doi
             THEN <<DoiWarning(paper, doi)>>
                  \o VerifyGroupDois(papersWithTitle, i + 1, doi)
             ELSE VerifyGroupDois(papersWithTitle, i + 1, doi)

\* PaperLibrary.verifyConsistentDois: the messages it prints, in order
RECURSIVE VerifyDoisFrom(_, _)
VerifyDoisFrom(lib, n) ==
    IF n > Len(lib.titleOrder) THEN <<>>
    ELSE VerifyGroupDois(lib.byTitleLower[lib.titleOrder[n]], 1, None)
         \o VerifyDoisFrom(lib, n + 1)

verifyConsistentDois(lib) == VerifyDoisFrom(lib, 1)

AuthorWarning(paper, author1) ==
    [title |-> paper.title, authorA |-> author1,
     authorB |-> getFirstAuthorLastNameLower(paper)]

RECURSIVE VerifyGroup1stAuthor(_, _, _)
VerifyGroup1stAuthor(papersWithTitle, i, author1) ==
    IF i > Len(papersWithTitle) THEN <<>>
    ELSE LET paper == papersWithTitle[i]
             firstAuthorForThisPaper == getFirstAuthorLastNameLower(paper)
         IN  IF firstAuthorForThisPaper = None
             THEN VerifyGroup1stAuthor(papersWithTitle, i + 1, author1)
             ELSE IF author1 = None
             THEN VerifyGroup1stAuthor(papersWithTitle, i + 1, firstAuthorForThisPaper)
             ELSE IF author1 # firstAuthorForThisPaper
             THEN <<AuthorWarning(paper, author1)>>
                  \o VerifyGroup1stAuthor(papersWithTitle, i + 1, author1)
             ELSE VerifyGroup1stAuthor(papersWithTitle, i + 1, author1)

RECURSIVE Verify1stAuthorFrom(_, _)
Verify1stAuthorFrom(lib, n) ==
    IF n > Len(lib.titleOrder) THEN <<>>
    ELSE VerifyGroup1stAuthor(lib.byTitleLower[lib.titleOrder[n]], 1, None)
         \o Verify1stAuthorFrom(lib, n + 1)

\* PaperLibrary.verifyConsistent1stAuthor: the messages it prints, in order
verifyConsistent1stAuthor(lib) == Verify1stAuthorFrom(lib, 1)

\* Papers.getDoiFromPaperList
RECURSIVE getDoiFromPaperList(_)
getDoiFromPaperList(paperList) ==
    IF Len(paperList) = 0 THEN None
    ELSE IF HasDoi(Head(paperList)) THEN Head(paperList).doi
    ELSE getDoiFromPaperList(Tail(paperList))

(***************************************************************************)
(* The bibliography (module CiteULike) and the run history (module         *)
(* HistoryDB) are collaborators whose code is not part of the sources at   *)
(* hand; they are modelled from the specification's description of their   *)
(* lookups.  A lookup that returns "an entry or None" is a sequence of at  *)
(* most one entry, the empty sequence being None.                          *)
(***************************************************************************)
CulEntry(id, titleLower, doi) == [culId |-> id, titleLower |-> titleLower, doi |-> doi]

\* culLib.getByDoi(doi): the entry with that DOI, or None
culGetByDoi(lib, doi) ==
    IF doi = None THEN <<>>
    ELSE LET hits == SelectSeq(lib, LAMBDA e : e.doi = doi)
         IN  IF Len(hits) = 0 THEN <<>> ELSE <<hits[1]>>

\* culLib.getByTitleLower(lowerTitle): the entries with that title
culGetByTitleLower(lib, lowerTitle) ==
    SelectSeq(lib, LAMBDA e : e.titleLower = lowerTitle)

HistoryRow(titleLower, doi, comment) ==
    [titleLower |-> titleLower, doi |-> doi, comment |-> comment]

\* history.getByTitleLower(lowerTitle): the record of that title, or None
historyGetByTitleLower(rows, lowerTitle) ==
    LET hits == SelectSeq(rows, LAMBDA r : r.titleLower = lowerTitle)
    IN  IF Len(hits) = 0 THEN <<>> ELSE <<hits[Len(hits)]>>

\* history.getByDoi(doi): the record of that DOI, or None
historyGetByDoi(rows, doi) ==
    IF doi = None THEN <<>>
    ELSE LET hits == SelectSeq(rows, LAMBDA r : r.doi = doi)
         IN  IF Len(hits) = 0 THEN <<>> ELSE <<hits[Len(hits)]>>

\* the name `history` of matchPapers.py: bound to a HistoryDB only when
\* --historyin was given (lines 215-219)
HistoryUnbound == [bound |-> FALSE, rows |-> <<>>]
HistoryDB(rows) == [bound |-> TRUE, rows |-> rows]

(***************************************************************************)
(* Matchup.py.  culEntries is a list or None: a record that says which.    *)
(***************************************************************************)
PyNone == [isNone |-> TRUE, items |-> <<>>]
PyList(items) == [isNone |-> FALSE, items |-> items]
\* Python truthiness of a list-or-None
Truthy(x) == ~x.isNone /\ Len(x.items) > 0

\* a constructor that completes the entries it is given: an entry without
\* DOI gets the DOI of the first sighting
Matchup_FillsInDoi(papers, culEntries) ==
    [papers |-> papers,
     culEntries |-> [culEntries EXCEPT !.items =
                        [i \in 1..Len(@) |->
                            IF @[i].doi = None
                            THEN [@[i] EXCEPT !.doi = papers[1].doi]
                            ELSE @[i]]],
     lowerTitle |-> getTitleLower(papers[1]),
     title |-> papers[1].title]

\* Matchup.__init__ (papers is not empty)
Matchup(papers, culEntries) ==
    [papers |-> papers,
     culEntries |-> culEntries,
     lowerTitle |-> getTitleLower(papers[1]),
     title |-> papers[1].title]

\* Matchup.getDoiFromPapers
RECURSIVE DoiFromPapersAt(_, _)
DoiFromPapersAt(papers, i) ==
    IF i > Len(papers) THEN None
    ELSE IF HasDoi(papers[i]) THEN papers[i].doi
    ELSE DoiFromPapersAt(papers, i + 1)

getDoiFromPapers(matchup) == DoiFromPapersAt(matchup.papers, 1)

\* a sort that is not stable: an element goes before the first element
\* whose key is greater or equal, so equal keys come out in reverse
RECURSIVE InsertBySearch_Unstable(_, _)
InsertBySearch_Unstable(sortedPapers, paper) ==
    IF Len(sortedPapers) = 0 THEN <<paper>>
    ELSE IF ~StrLess(Head(sortedPapers).search, paper.search)
    THEN <<paper>> \o sortedPapers
    ELSE <<Head(sortedPapers)>> \o InsertBySearch_Unstable(Tail(sortedPapers), paper)

\* sorted() is stable: an element goes before the first element whose key is
\* strictly greater
RECURSIVE InsertBySearch(_, _)
InsertBySearch(sortedPapers, paper) ==
    IF Len(sortedPapers) = 0 THEN <<paper>>
    ELSE IF StrLess(paper.search, Head(sortedPapers).search)
    THEN <<paper>> \o sortedPapers
    ELSE <<Head(sortedPapers)>> \o InsertBySearch(Tail(sortedPapers), paper)

RECURSIVE SortBySearchFrom(_, _, _)
SortBySearchFrom(papers, i, acc) ==
    IF i > Len(papers) THEN acc
    ELSE SortBySearchFrom(papers, i + 1, InsertBySearch(acc, papers[i]))

\* the sightings as they arrived, not sorted
getPapersSortedBySearch_Unsorted(matchup) == matchup.papers

\* Matchup.getPapersSortedBySearch
getPapersSortedBySearch(matchup) == SortBySearchFrom(matchup.papers, 1, <<>>)

\* the loop of getPapersLongestTitel with >= for >: of the titles of the
\* greatest length the last one wins
RECURSIVE LongestTitleFrom_LastWins(_, _, _)
LongestTitleFrom_LastWins(papers, i, longest) ==
    IF i > Len(papers) THEN longest
    ELSE IF Len(papers[i].title) >= Len(longest)
    THEN LongestTitleFrom_LastWins(papers, i + 1, papers[i].title)
    ELSE LongestTitleFrom_LastWins(papers, i + 1, longest)

\* Matchup.getPapersLongestTitel
RECURSIVE LongestTitleFrom(_, _, _)
LongestTitleFrom(papers, i, longest) ==
    IF i > Len(papers) THEN longest
    ELSE IF Len(papers[i].title) > Len(longest)
    THEN LongestTitleFrom(papers, i + 1, papers[i].title)
    ELSE LongestTitleFrom(papers, i + 1, longest)

getPapersLongestTitel(matchup) == LongestTitleFrom(matchup.papers, 1, <<>>)

\* the names module Matchup defines: its imports, the class and the two
\* module-level functions
MatchupModuleAttrs ==
    {"csv", "urllib", "yattag", "Papers", "HistoryDB",
     "Matchup", "createReport", "reportPaper"}

\* the markup with one counter for both kinds: the Known branch numbers
\* its report with newCounter and adds one to it
ReportMarkup_OneCounter(matchup, counters, newPaper, historyEntry) ==
    [html |->
       [kind |-> IF ~newPaper THEN "Known"
                 ELSE IF Len(historyEntry) > 0 THEN "Newish" ELSE "New",
        comment |-> IF newPaper /\ Len(historyEntry) > 0
                    THEN historyEntry[1].comment ELSE None,
        number |-> counters.new + 1,
        hLevel |-> IF newPaper THEN "h2" ELSE "h3",
        heading |-> matchup.papers[1].title,
        listed |-> getPapersSortedBySearch(matchup),
        culLinks |-> IF newPaper THEN <<>> ELSE matchup.culEntries.items],
     counters |-> [counters EXCEPT !.new = @ + 1]]

\* The markup reportPaper returns (lines 197-277) and the counters it
\* leaves, given newPaper (line 170) and historyEntry (lines 180-183, a
\* record or None).  html is what the markup shows: the leader of the
\* heading (kind, the history comment, the number), the heading's title, the
\* sightings listed and the bibliography links.
ReportMarkup(matchup, counters, newPaper, historyEntry) ==
    IF newPaper
    THEN [html |->
            [kind |-> IF Len(historyEntry) > 0 THEN "Newish" ELSE "New",
             comment |-> IF Len(historyEntry) > 0
                         THEN historyEntry[1].comment ELSE None,
             number |-> counters.new + 1,
             hLevel |-> "h2",
             heading |-> matchup.papers[1].title,
             listed |-> getPapersSortedBySearch(matchup),
             culLinks |-> <<>>],
          counters |-> [counters EXCEPT !.new = @ + 1]]
    ELSE [html |->
            [kind |-> "Known",
             comment |-> None,
             number |-> counters.known + 1,
             hLevel |-> "h3",
             heading |-> matchup.papers[1].title,
             listed |-> getPapersSortedBySearch(matchup),
             culLinks |-> matchup.culEntries.items],
          counters |-> [counters EXCEPT !.known = @ + 1]]

\* reportPaper looking the history up by DOI only
reportPaper_DoiOnly(matchup, history, counters) ==
    ReportMarkup(matchup, counters, ~Truthy(matchup.culEntries),
        IF ~history.bound THEN <<>>
        ELSE historyGetByDoi(history.rows, getDoiFromPapers(matchup)))

\* reportPaper looking the history up by DOI first and by title second
reportPaper_DoiFirst(matchup, history, counters) ==
    LET byDoi == historyGetByDoi(history.rows, getDoiFromPapers(matchup))
    IN  ReportMarkup(matchup, counters, ~Truthy(matchup.culEntries),
            IF ~history.bound THEN <<>>
            ELSE IF Len(byDoi) = 0
            THEN historyGetByTitleLower(history.rows, matchup.lowerTitle)
            ELSE byDoi)

\* reportPaper taking a paper found in the history for a new one
reportPaper_HistoryFirst(matchup, history, counters) ==
    LET byTitle == historyGetByTitleLower(history.rows, matchup.lowerTitle)
        historyEntry ==
            IF ~history.bound THEN <<>>
            ELSE IF Len(byTitle) = 0
            THEN historyGetByDoi(history.rows, getDoiFromPapers(matchup))
            ELSE byTitle
    IN  ReportMarkup(matchup, counters,
            ~Truthy(matchup.culEntries) \/ Len(historyEntry) > 0, historyEntry)

\* reportPaper(matchup, history), lines 164-195, with the function
\* attributes newCounter and knownCounter passed in and out as counters.
\* `if history` holds of a HistoryDB object.
reportPaper(matchup, history, counters) ==
    LET byTitle == historyGetByTitleLower(history.rows, matchup.lowerTitle)
        historyEntry ==
            IF ~history.bound THEN <<>>
            ELSE IF Len(byTitle) = 0
            THEN historyGetByDoi(history.rows, getDoiFromPapers(matchup))
            ELSE byTitle
    IN  ReportMarkup(matchup, counters, ~Truthy(matchup.culEntries), historyEntry)

(***************************************************************************)
(* matchPapers.py, MAIN.                                                   *)
(***************************************************************************)
VARIABLES
    pc,               \* where MAIN is: "ingest", "verify1stAuthor", "matchup",
                      \* "report", "writeHistory", "done"
    raised,           \* the uncaught exception that ended the run at pc, or None
    culLib,           \* the bibliography (line 213)
    history,          \* the name `history` (lines 215-219)
    historyout,       \* whether --historyout was given
    stdoutEncoding,   \* the encoding print() writes with
    arrivals,         \* the sightings passed to addPaper so far, in order
    papers,           \* the PaperLibrary (line 222)
    doiWarnings,      \* what verifyConsistentDois printed
    authorWarnings,   \* what verifyConsistent1stAuthor printed
    byLowerTitle,     \* the matchups (line 266)
    sortedTitles,     \* line 290
    reportPos,        \* the report loop's position in sortedTitles
    printed,          \* what the report loop printed, one entry per title
    counters,         \* reportPaper.newCounter and reportPaper.knownCounter
    historyFile,      \* the history output: whether written, and its rows
    run,              \* "N": this run; "N+1": the run that reads N's history
    prevNew,          \* the titles the previous run reported as new
    fastCulLib,       \* generateCULReport.py: the FastCulLib of the library
    queried,          \* the call of getPapers made and its outcome
    journalReport,    \* the rows of the journal report
    givenMatchup,     \* Matchup.getPapersLongestTitel on its own: its Matchup
    longestTitel,     \* and the title it returned
    givenTitle,       \* Title.strip on its own: the title it is given
    normalized        \* and what successive calls of strip made of it

\* the variables of Title.strip on its own
titleVars == <<givenTitle, normalized>>

\* the variables of Matchup.getPapersLongestTitel on its own
longestVars == <<givenMatchup, longestTitel>>

\* the variables of generateCULReport.py
culReportVars == <<fastCulLib, queried, journalReport>>

\* the variables MAIN and the report loop do not have
otherVars == <<titleVars, longestVars, culReportVars>>

\* nothing was given to Title.strip
NoTitleGiven == givenTitle = <<>> /\ normalized = <<>>

\* generateCULReport.py is not running
NoCulReport == fastCulLib = <<>> /\ queried = <<>> /\ journalReport = <<>>

\* nothing was given to Matchup.getPapersLongestTitel
NoMatchupGiven == givenMatchup = <<>> /\ longestTitel = <<>>

vars == <<pc, raised, culLib, history, historyout, stdoutEncoding, arrivals,
          papers, doiWarnings, authorWarnings, byLowerTitle, sortedTitles,
          reportPos, printed, counters, historyFile, run, prevNew,
          fastCulLib, queried, journalReport,
          givenMatchup, longestTitel, givenTitle, normalized>>

\* lines 273-285: the Matchup of one group, given its representative DOI
MatchupFor(lib, lowerTitle, papersWithTitle, doi) ==
    LET culPaper == culGetByDoi(lib, doi)
        culPapers == culGetByTitleLower(lib, lowerTitle)
    IN  IF Len(culPaper) > 0
        THEN Matchup(papersWithTitle, PyList(culPaper))
        ELSE IF Len(culPapers) > 0
        THEN Matchup(papersWithTitle, PyList(culPapers))
        ELSE Matchup(papersWithTitle, PyNone)

\* lines 266-285: the matchup loop from the n-th group on.  Line 271 calls
\* Matchup.getDoiFromPaperList: a name module Matchup does not define
\* (the function is Papers.getDoiFromPaperList), so the first iteration
\* raises AttributeError.
RECURSIVE MatchupLoopFrom(_, _, _, _)
MatchupLoopFrom(library, lib, n, acc) ==
    IF n > Len(library.titleOrder) THEN [byLowerTitle |-> acc, raised |-> None]
    ELSE IF "getDoiFromPaperList" \notin MatchupModuleAttrs
    THEN [byLowerTitle |-> acc, raised |-> "AttributeError"]
    ELSE LET lowerTitle == library.titleOrder[n]
             papersWithTitle == library.byTitleLower[lowerTitle]
             doi == getDoiFromPaperList(papersWithTitle)
         IN  MatchupLoopFrom(library, lib, n + 1,
                 DictSet(acc, lowerTitle,
                         MatchupFor(lib, lowerTitle, papersWithTitle, doi)))

MatchupLoopOutcome(library, lib) == MatchupLoopFrom(library, lib, 1, EmptyDict)

\* whether print() can write a string with the given encoding
IsAscii(str) == \A i \in 1..Len(str) : Ord(str[i]) < 128
CanEncode(html, encoding) ==
    encoding = "utf-8"
    \/ (IsAscii(html.heading)
        /\ \A i \in 1..Len(html.listed) :
              IsAscii(html.listed[i].title) /\ IsAscii(html.listed[i].search))

\* HistoryDB.writeHistory(byLowerTitle, sortedTitles, path, history): one
\* row per matchup without bibliography entries, in sortedTitles order; a
\* paper already in the history keeps its comment
RECURSIVE HistoryRowsFrom(_, _, _, _)
HistoryRowsFrom(matchups, titles, i, old) ==
    IF i > Len(titles) THEN <<>>
    ELSE LET matchup == matchups[titles[i]]
             byTitle == historyGetByTitleLower(old.rows, matchup.lowerTitle)
             entry == IF Len(byTitle) > 0 THEN byTitle
                      ELSE historyGetByDoi(old.rows, getDoiFromPapers(matchup))
             row == HistoryRow(matchup.lowerTitle, getDoiFromPapers(matchup),
                               IF Len(entry) > 0 THEN entry[1].comment ELSE "")
         IN  IF Truthy(matchup.culEntries)
             THEN HistoryRowsFrom(matchups, titles, i + 1, old)
             ELSE <<row>> \o HistoryRowsFrom(matchups, titles, i + 1, old)

writeHistory(matchups, titles, old) == HistoryRowsFrom(matchups, titles, 1, old)

NotWritten == [written |-> FALSE, rows |-> <<>>]
NoCounters == [new |-> 0, known |-> 0]

(***************************************************************************)
(* The inputs of a run.                                                    *)
(***************************************************************************)
KeyFull == strip(TitleFull)
KeyOther == strip(TitleOther)

CulLibPool ==
    {<<>>,
     <<CulEntry("c1", KeyFull, None)>>,
     <<CulEntry("c1", KeyFull, None), CulEntry("c2", KeyOther, "10.1/a"),
       CulEntry("c3", KeyFull, "10.1/b")>>}

HistoryPool ==
    {HistoryUnbound, HistoryDB(<<>>),
     HistoryDB(<<HistoryRow(KeyFull, None, "awaiting PDF")>>),
     HistoryDB(<<HistoryRow(KeyOther, "10.1/a", "check authors")>>),
     HistoryDB(<<HistoryRow(KeyFull, None, "awaiting PDF"),
                 HistoryRow(KeyOther, "10.1/a", "check authors")>>)}

\* the state after lines 209-225
Init ==
    /\ pc = "ingest"
    /\ raised = None
    /\ culLib \in CulLibPool
    /\ history \in {HistoryUnbound, HistoryDB(<<>>)}
    /\ historyout \in BOOLEAN
    /\ stdoutEncoding = "utf-8"
    /\ arrivals = <<>>
    /\ papers = NewPaperLibrary
    /\ doiWarnings = <<>>
    /\ authorWarnings = <<>>
    /\ byLowerTitle = EmptyDict
    /\ sortedTitles = <<>>
    /\ reportPos = 1
    /\ printed = <<>>
    /\ counters = NoCounters
    /\ historyFile = NotWritten
    /\ run = "N"
    /\ prevNew = {}
    /\ NoTitleGiven
    /\ NoMatchupGiven
    /\ NoCulReport

\* lines 243-246: the next sighting of the emails goes to papers.addPaper;
\* an exception that leaves addPaper ends the run
AddPaper ==
    /\ pc = "ingest"
    /\ UNCHANGED otherVars
    /\ raised = None
    /\ Len(arrivals) < MaxPapers
    /\ \E paper \in PaperPool :
          LET out == addPaper(papers, paper)
          IN  /\ arrivals' = Append(arrivals, paper)
              /\ papers' = out.lib
              /\ raised' = out.raised
              /\ pc' = pc
    /\ UNCHANGED <<culLib, history, historyout, stdoutEncoding, doiWarnings,
                   authorWarnings, byLowerTitle, sortedTitles, reportPos,
                   printed, counters, historyFile, run, prevNew>>

\* line 259, reached when the emails of every source are read
VerifyConsistentDois ==
    /\ pc = "ingest"
    /\ UNCHANGED otherVars
    /\ raised = None
    /\ doiWarnings' = verifyConsistentDois(papers)
    /\ pc' = "verify1stAuthor"
    /\ UNCHANGED <<raised, culLib, history, historyout, stdoutEncoding, arrivals,
                   papers, authorWarnings, byLowerTitle, sortedTitles,
                   reportPos, printed, counters, historyFile, run, prevNew>>

\* line 260
VerifyConsistent1stAuthor ==
    /\ pc = "verify1stAuthor"
    /\ UNCHANGED otherVars
    /\ raised = None
    /\ authorWarnings' = verifyConsistent1stAuthor(papers)
    /\ pc' = "matchup"
    /\ UNCHANGED <<raised, culLib, history, historyout, stdoutEncoding, arrivals,
                   papers, doiWarnings, byLowerTitle, sortedTitles,
                   reportPos, printed, counters, historyFile, run, prevNew>>

\* lines 266-290
MatchupLoop ==
    /\ pc = "matchup"
    /\ UNCHANGED otherVars
    /\ raised = None
    /\ LET out == MatchupLoopOutcome(papers, culLib)
       IN  /\ byLowerTitle' = out.byLowerTitle
           /\ raised' = out.raised
           /\ IF out.raised = None
              THEN /\ sortedTitles' = SortedStrs(DOMAIN out.byLowerTitle)
                   /\ pc' = "report"
              ELSE /\ sortedTitles' = sortedTitles
                   /\ pc' = pc
    /\ UNCHANGED <<culLib, history, historyout, stdoutEncoding, arrivals,
                   papers, doiWarnings, authorWarnings, reportPos, printed,
                   counters, historyFile, run, prevNew>>

\* what the report loop prints in place of a report that cannot be encoded
EncodeErrorOutput(title) ==
    [lowerTitle |-> title, encodeError |-> TRUE,
     html |-> [kind |-> None, comment |-> None, number |-> 0, hLevel |-> None,
               heading |-> <<>>, listed |-> <<>>, culLinks |-> <<>>]]

\* the report loop without its try/except: the error of print() leaves it
ReportLoop_NoExcept ==
    /\ pc = "report"
    /\ UNCHANGED otherVars
    /\ raised = None
    /\ IF reportPos > Len(sortedTitles)
       THEN /\ pc' = "writeHistory"
            /\ UNCHANGED <<raised, reportPos, printed, counters>>
       ELSE IF ~history.bound
       THEN /\ raised' = "NameError"
            /\ UNCHANGED <<pc, reportPos, printed, counters>>
       ELSE LET title == sortedTitles[reportPos]
                out == reportPaper(byLowerTitle[title], history, counters)
            IN  /\ counters' = out.counters
                /\ IF CanEncode(out.html, stdoutEncoding)
                   THEN /\ printed' = Append(printed,
                               [lowerTitle |-> title, encodeError |-> FALSE,
                                html |-> out.html])
                        /\ reportPos' = reportPos + 1
                        /\ UNCHANGED <<pc, raised>>
                   ELSE /\ raised' = "UnicodeEncodeError"
                        /\ UNCHANGED <<pc, reportPos, printed>>
    /\ UNCHANGED <<culLib, history, historyout, stdoutEncoding, arrivals,
                   papers, doiWarnings, authorWarnings, byLowerTitle,
                   sortedTitles, historyFile, run, prevNew>>

\* lines 292-301: one pass of the for statement: the next title is reported,
\* or the loop ends.  Reading the unbound name `history` raises NameError,
\* which the except clause does not catch.
ReportLoop ==
    /\ pc = "report"
    /\ UNCHANGED otherVars
    /\ raised = None
    /\ IF reportPos > Len(sortedTitles)
       THEN /\ pc' = "writeHistory"
            /\ UNCHANGED <<raised, reportPos, printed, counters>>
       ELSE IF ~history.bound
       THEN /\ raised' = "NameError"
            /\ UNCHANGED <<pc, reportPos, printed, counters>>
       ELSE LET title == sortedTitles[reportPos]
                out == reportPaper(byLowerTitle[title], history, counters)
            IN  /\ counters' = out.counters
                /\ printed' = Append(printed,
                       IF CanEncode(out.html, stdoutEncoding)
                       THEN [lowerTitle |-> title, encodeError |-> FALSE,
                             html |-> out.html]
                       ELSE EncodeErrorOutput(title))
                /\ reportPos' = reportPos + 1
                /\ UNCHANGED <<pc, raised>>
    /\ UNCHANGED <<culLib, history, historyout, stdoutEncoding, arrivals,
                   papers, doiWarnings, authorWarnings, byLowerTitle,
                   sortedTitles, historyFile, run, prevNew>>

\* lines 303-304
WriteHistory ==
    /\ pc = "writeHistory"
    /\ UNCHANGED otherVars
    /\ raised = None
    /\ IF ~historyout
       THEN /\ pc' = "done"
            /\ UNCHANGED <<raised, historyFile>>
       ELSE IF ~history.bound
       THEN /\ raised' = "NameError"
            /\ UNCHANGED <<pc, historyFile>>
       ELSE /\ historyFile' = [written |-> TRUE,
                               rows |-> writeHistory(byLowerTitle, sortedTitles, history)]
            /\ pc' = "done"
            /\ UNCHANGED raised
    /\ UNCHANGED <<culLib, history, historyout, stdoutEncoding, arrivals,
                   papers, doiWarnings, authorWarnings, byLowerTitle,
                   sortedTitles, reportPos, printed, counters, run, prevNew>>

Next ==
    \/ AddPaper
    \/ VerifyConsistentDois
    \/ VerifyConsistent1stAuthor
    \/ MatchupLoop
    \/ ReportLoop
    \/ WriteHistory

Spec == Init /\ [][Next]_vars

(***************************************************************************)
(* The Matchup module on its own: the report loop, the history write-back  *)
(* and the next run, over Matchups built by Matchup() from any group and   *)
(* any bibliography entries.                                               *)
(***************************************************************************)
\* the sequences without repetition over a set of sightings
RECURSIVE Arrangements(_)
Arrangements(S) ==
    {<<>>} \cup UNION {{<<x>> \o rest : rest \in Arrangements(S \ {x})} : x \in S}

CulA == CulEntry("c1", KeyFull, None)
CulB == CulEntry("c2", KeyOther, "10.1/a")
CulC == CulEntry("c3", KeyFull, "10.1/b")
\* the bibliography the Matchups below hold entries of
CulLibFull == <<CulA, CulB, CulC>>

\* the groups of title KeyFull and the Matchups over them
GroupsFull ==
    Arrangements({MkPaper(TitleFull, None, SearchB, "lee", "WOSPaper", FALSE),
                  MkPaper(TitleVariant, "10.1/a", SearchA, "kim", "SDPaper", FALSE),
                  MkPaper(TitleFull, "10.1/b", SearchB, "lee", "WOSPaper", FALSE)})
    \ {<<>>}

MatchupsFull ==
    {Matchup(g, c) : g \in GroupsFull,
                     c \in {PyNone, PyList(<<>>), PyList(<<CulA, CulC>>)}}

MatchupsOther ==
    {Matchup(<<MkPaper(TitleOther, "10.1/a", SearchA, None, "WileyPaper", FALSE)>>, c) :
        c \in {PyNone, PyList(<<CulB>>)}}
    \cup {Matchup(<<MkPaper(TitleAccent, None, SearchA, None, "WileyPaper", FALSE)>>, PyNone)}

\* a dict of Matchups keyed by lowerTitle, as the matchup loop stores them
MatchupDicts ==
    {EmptyDict}
    \cup {DictSet(EmptyDict, m.lowerTitle, m) : m \in MatchupsFull \cup MatchupsOther}
    \cup {DictSet(DictSet(EmptyDict, m.lowerTitle, m), o.lowerTitle, o) :
            m \in MatchupsFull, o \in MatchupsOther}

InitMatchup ==
    /\ pc = "report"
    /\ raised = None
    /\ culLib = CulLibFull
    /\ history \in HistoryPool
    /\ historyout \in BOOLEAN
    /\ stdoutEncoding \in {"utf-8", "ascii"}
    /\ arrivals = <<>>
    /\ papers = NewPaperLibrary
    /\ doiWarnings = <<>>
    /\ authorWarnings = <<>>
    /\ byLowerTitle \in MatchupDicts
    /\ sortedTitles = SortedStrs(DOMAIN byLowerTitle)
    /\ reportPos = 1
    /\ printed = <<>>
    /\ counters = NoCounters
    /\ historyFile = NotWritten
    /\ run = "N"
    /\ prevNew = {}
    /\ NoTitleGiven
    /\ NoMatchupGiven
    /\ NoCulReport

\* the titles of the matchups without bibliography entries
NewTitles(matchups) ==
    {t \in DOMAIN matchups : ~Truthy(matchups[t].culEntries)}

\* The next run: it reads the history the run before wrote (line 219), in
\* which a person may have filled in the comment of the rows that had none.
NextRun ==
    /\ pc = "done"
    /\ UNCHANGED otherVars
    /\ run = "N"
    /\ historyFile.written
    /\ culLib = CulLibFull
    /\ \E note \in {"", "awaiting PDF"} :
          history' = HistoryDB([i \in 1..Len(historyFile.rows) |->
                         IF historyFile.rows[i].comment = ""
                         THEN [historyFile.rows[i] EXCEPT !.comment = note]
                         ELSE historyFile.rows[i]])
    /\ byLowerTitle' \in MatchupDicts
    /\ sortedTitles' = SortedStrs(DOMAIN byLowerTitle')
    /\ prevNew' = NewTitles(byLowerTitle)
    /\ run' = "N+1"
    /\ pc' = "report"
    /\ reportPos' = 1
    /\ printed' = <<>>
    /\ counters' = NoCounters
    /\ historyFile' = NotWritten
    /\ UNCHANGED <<raised, culLib, historyout, stdoutEncoding, arrivals, papers,
                   doiWarnings, authorWarnings>>

NextMatchup ==
    \/ ReportLoop
    \/ WriteHistory
    \/ NextRun

SpecMatchup == InitMatchup /\ [][NextMatchup]_vars

(***************************************************************************)
(* Properties of the index and of the main run (specification Spec).       *)
(***************************************************************************)
Groups == papers.byTitleLower
GroupKeys == DOMAIN papers.byTitleLower

\* MAIN is past the verify step
Verified == pc # "ingest"

\* the matchup loop has run: to its end, or to the exception that ended it
MatchupLoopEnded ==
    pc \in {"report", "writeHistory", "done"} \/ (pc = "matchup" /\ raised # None)

\* the positions of a group whose sighting has a DOI
DoiPositions(group) == {i \in 1..Len(group) : HasDoi(group[i])}

\* the DOI of the first sighting, in arrival order, that has one
FirstDoi(group) ==
    IF DoiPositions(group) = {} THEN None
    ELSE group[CHOOSE i \in DoiPositions(group) :
                   \A j \in DoiPositions(group) : i <= j].doi

DistinctDois(group) == {group[i].doi : i \in DoiPositions(group)}

\* the warnings verifyConsistentDois printed about the group of a key
WarningsOf(key) == SelectSeq(doiWarnings, LAMBDA w : strip(w.title) = key)

IsPrefixOf(short, long) ==
    Len(short) <= Len(long) /\ short = SubSeq(long, 1, Len(short))

\* C1 (as claimed): when the index holds a group created by a non-truncated
\* sighting with title T, adding a truncated sighting whose title is the
\* first L characters of T appends it to that group and leaves the number
\* of groups unchanged.
C1_TruncationConvergence ==
    [][\A key \in GroupKeys :
         (/\ pc = "ingest"
          /\ Len(arrivals') = Len(arrivals) + 1
          /\ ~Groups[key][1].truncated
          /\ arrivals'[Len(arrivals')].truncated
          /\ IsPrefixOf(arrivals'[Len(arrivals')].title, Groups[key][1].title))
         => papers'.byTitleLower =
              [Groups EXCEPT ![key] = Append(@, arrivals'[Len(arrivals')])]]_vars

\* C2 (as claimed): once the matchup loop has run, every group whose
\* representative DOI has an entry in the bibliography has a Matchup that
\* holds exactly that one entry.
C2_DoiMatchHasPriority ==
    MatchupLoopEnded =>
        \A key \in GroupKeys :
            Len(culGetByDoi(culLib, FirstDoi(Groups[key]))) > 0
            => /\ key \in DOMAIN byLowerTitle
               /\ byLowerTitle[key].culEntries =
                      PyList(culGetByDoi(culLib, FirstDoi(Groups[key])))

\* C3 (as claimed): once the matchup loop has run there is exactly one
\* Matchup per group, under the group's key; it has no bibliography entries
\* iff the bibliography has neither the group's DOI nor its title; a title
\* match holds all entries of that title.
C3_ClassificationTotal ==
    MatchupLoopEnded =>
        /\ DOMAIN byLowerTitle = GroupKeys
        /\ \A key \in GroupKeys :
              LET byDoi == culGetByDoi(culLib, FirstDoi(Groups[key]))
                  byTitle == culGetByTitleLower(culLib, key)
              IN  /\ byLowerTitle[key].papers = Groups[key]
                  /\ ~Truthy(byLowerTitle[key].culEntries)
                         <=> (Len(byDoi) = 0 /\ Len(byTitle) = 0)
                  /\ (Len(byDoi) = 0 /\ Len(byTitle) > 0)
                         => byLowerTitle[key].culEntries = PyList(byTitle)

\* C4 (as claimed): the representative DOI is the DOI of the first sighting
\* that has one, None when there is none, and the matchup loop obtains it
\* so for every group.
C4_RepresentativeDoi ==
    /\ \A key \in GroupKeys :
          /\ getDoiFromPaperList(Groups[key]) = FirstDoi(Groups[key])
          /\ getDoiFromPapers(Matchup(Groups[key], PyNone)) = FirstDoi(Groups[key])
    /\ MatchupLoopEnded =>
          /\ raised = None
          /\ \A key \in GroupKeys :
                /\ key \in DOMAIN byLowerTitle
                /\ byLowerTitle[key] =
                       MatchupFor(culLib, key, Groups[key], FirstDoi(Groups[key]))

\* the sightings the primary index holds, as (key, position) pairs
Indexed == UNION {{<<key, i>> : i \in 1..Len(Groups[key])} : key \in GroupKeys}
SightingAt(x) == Groups[x[1]][x[2]]

\* C5 (as claimed): no two indexed sightings with the same DOI are in
\* different groups.
C5_SameDoiSameGroup ==
    \A x \in Indexed, y \in Indexed :
        (HasDoi(SightingAt(x)) /\ SightingAt(x).doi = SightingAt(y).doi)
        => x[1] = y[1]

\* C5 (amended): two indexed sightings with the same DOI are in the same
\* group exactly when their titles normalise to the same key; the DOI index
\* lists every indexed sighting under its DOI.
C5_SameDoiSameGroupIffSameKey ==
    \A x \in Indexed, y \in Indexed :
        (HasDoi(SightingAt(x)) /\ SightingAt(x).doi = SightingAt(y).doi)
        => /\ (x[1] = y[1]) <=> (strip(SightingAt(x).title) = strip(SightingAt(y).title))
           /\ SightingAt(x).doi \in DOMAIN papers.byDoi
           /\ \E i \in 1..Len(papers.byDoi[SightingAt(x).doi]) :
                 papers.byDoi[SightingAt(x).doi][i] = SightingAt(y)

\* two sightings with one DOI and titles that differ in case and
\* punctuation share a group
C5_Witness ==
    \E x \in Indexed, y \in Indexed :
        /\ x[1] = y[1]
        /\ HasDoi(SightingAt(x))
        /\ SightingAt(x).doi = SightingAt(y).doi
        /\ SightingAt(x).title # SightingAt(y).title

\* the positions of a group whose DOI conflicts with the group's first DOI
ConflictPositions(group) ==
    {i \in DoiPositions(group) : group[i].doi # FirstDoi(group)}

\* the increasing enumeration of a finite set of numbers
RECURSIVE Ascending(_)
Ascending(S) ==
    IF S = {} THEN <<>>
    ELSE LET m == CHOOSE i \in S : \A j \in S : i <= j
         IN  <<m>> \o Ascending(S \ {m})

C7_WarningIffConflict ==
    /\ [](Verified =>
            \A key \in GroupKeys :
                (Len(WarningsOf(key)) > 0)
                    <=> (Cardinality(DistinctDois(Groups[key])) > 1))
    /\ [][(pc = "ingest" /\ pc' # "ingest")
              => (pc' = "verify1stAuthor" /\ raised' = None)]_vars
    /\ [][(pc = "verify1stAuthor" /\ pc' # pc)
              => (pc' = "matchup" /\ raised' = None)]_vars

\* the run is at the matchup step after warning about a group in which a
\* sighting without DOI stands between two conflicting ones
C7_Witness ==
    /\ pc = "matchup"
    /\ raised = None
    /\ \E key \in GroupKeys :
          /\ Len(Groups[key]) = 3
          /\ DoiPositions(Groups[key]) = {1, 3}
          /\ Len(WarningsOf(key)) = 1

(***************************************************************************)
(* Properties of the Matchup module (specification SpecMatchup).           *)
(***************************************************************************)
\* the reports the report loop wrote out
Reports == {printed[i] : i \in {j \in 1..Len(printed) : ~printed[j].encodeError}}

MatchupOf(report) == byLowerTitle[report.lowerTitle]
IsNew(matchup) == ~Truthy(matchup.culEntries)

\* the history records a report's matchup can be found under
TitleRecord(report) ==
    historyGetByTitleLower(history.rows, MatchupOf(report).lowerTitle)
DoiRecord(report) ==
    historyGetByDoi(history.rows, FirstDoi(MatchupOf(report).papers))

\* C8: a title that was new in run N, and so written to the history, and
\* is new again in run N+1 is reported Newish there, with the comment of
\* its history record.
C8_HistoryRoundTrip ==
    run = "N+1" =>
        \A report \in Reports :
            (IsNew(MatchupOf(report)) /\ report.lowerTitle \in prevNew)
            => /\ report.html.kind = "Newish"
               /\ \E i \in 1..Len(history.rows) :
                     /\ history.rows[i].titleLower = report.lowerTitle
                     /\ history.rows[i].comment = report.html.comment
               /\ \A i \in 1..Len(history.rows) :
                     history.rows[i].titleLower = report.lowerTitle
                     => history.rows[i].comment = report.html.comment

\* run N+1 reports, as Newish and with the comment filled in after run N,
\* a paper without DOI that run N reported as new
C8_Witness ==
    /\ run = "N+1"
    /\ \E report \in Reports :
          /\ report.lowerTitle \in prevNew
          /\ IsNew(MatchupOf(report))
          /\ FirstDoi(MatchupOf(report).papers) = None
          /\ report.html.kind = "Newish"
          /\ report.html.comment = "awaiting PDF"

\* C9: a Matchup with a bibliography entry is reported as Known, whatever
\* the history holds.
C9_KnownIgnoresHistory ==
    \A report \in Reports :
        Truthy(MatchupOf(report).culEntries)
        => /\ report.html.kind = "Known"
           /\ report.html.comment = None
           /\ report.html.culLinks = MatchupOf(report).culEntries.items

\* a Known report of a matchup whose title and whose DOI are in the history
C9_Witness ==
    /\ history.bound
    /\ \E report \in Reports :
          /\ report.html.kind = "Known"
          /\ Len(TitleRecord(report)) > 0
    /\ \E report \in Reports :
          /\ report.html.kind = "Known"
          /\ Len(DoiRecord(report)) > 0

\* C10: a new matchup is Newish iff its title or its DOI is in the
\* history; the comment is the title record's when there is one, the DOI
\* record's otherwise.
C10_TitleBeforeDoi ==
    \A report \in Reports :
        IsNew(MatchupOf(report))
        => /\ (report.html.kind = "Newish")
                  <=> (Len(TitleRecord(report)) > 0 \/ Len(DoiRecord(report)) > 0)
           /\ (report.html.kind = "New")
                  <=> (Len(TitleRecord(report)) = 0 /\ Len(DoiRecord(report)) = 0)
           /\ Len(TitleRecord(report)) > 0
                  => report.html.comment = TitleRecord(report)[1].comment
           /\ (Len(TitleRecord(report)) = 0 /\ Len(DoiRecord(report)) > 0)
                  => report.html.comment = DoiRecord(report)[1].comment

\* a Newish report that shows the title record's comment although another
\* record, with another comment, has the matchup's DOI
C10_Witness ==
    \E report \in Reports :
        /\ IsNew(MatchupOf(report))
        /\ Len(TitleRecord(report)) > 0
        /\ Len(DoiRecord(report)) > 0
        /\ TitleRecord(report)[1].comment # DoiRecord(report)[1].comment
        /\ report.html.kind = "Newish"
        /\ report.html.comment = TitleRecord(report)[1].comment

\* a Newish report found by DOI alone
C10_WitnessDoiOnly ==
    \E report \in Reports :
        /\ IsNew(MatchupOf(report))
        /\ Len(TitleRecord(report)) = 0
        /\ Len(DoiRecord(report)) > 0
        /\ report.html.kind = "Newish"

(***************************************************************************)
(* The run without --historyin.                                            *)
(***************************************************************************)
\* C11 (as claimed): a run started without a history input reports its
\* matchups, the new ones as New and never as Newish, and gets through the
\* report and the write-back without an exception.
C11_HistoryOptional ==
    ~history.bound =>
        /\ raised # "NameError"
        /\ \A report \in Reports :
              IsNew(MatchupOf(report)) => report.html.kind = "New"
        /\ (pc = "done" /\ historyout) => historyFile.written

(***************************************************************************)
(* The order of the output (specification SpecMatchup).                    *)
(***************************************************************************)
\* the ways to rearrange n positions
Rearrangements(n) ==
    {f \in [1..n -> 1..n] : \A i, j \in 1..n : f[i] = f[j] => i = j}

\* listed is group in non-decreasing order of search label, sightings of
\* equal label in the order they have in group
IsStableSortBySearch(listed, group) ==
    /\ Len(listed) = Len(group)
    /\ \E f \in Rearrangements(Len(group)) :
          /\ \A i \in 1..Len(group) : listed[i] = group[f[i]]
          /\ \A i, j \in 1..Len(group) :
                i < j => /\ ~StrLess(listed[j].search, listed[i].search)
                         /\ listed[i].search = listed[j].search => f[i] < f[j]

\* C12: the titles are gone through in ascending order of normalized
\* title, each Matchup once; every report lists the sightings of its group
\* in non-decreasing order of search label, a stable rearrangement of the
\* group; and reporting leaves the groups as they were.
C12_OutputOrdering ==
    /\ [](/\ \A i \in 1..Len(printed) : printed[i].lowerTitle = sortedTitles[i]
          /\ \A i, j \in 1..Len(sortedTitles) :
                i < j => StrLess(sortedTitles[i], sortedTitles[j])
          /\ {sortedTitles[i] : i \in 1..Len(sortedTitles)} = DOMAIN byLowerTitle
          /\ pc \in {"writeHistory", "done"} => Len(printed) = Len(sortedTitles)
          /\ \A report \in Reports :
                IsStableSortBySearch(report.html.listed, MatchupOf(report).papers))
    /\ [][pc = "report" => byLowerTitle' = byLowerTitle]_vars

\* two groups were reported, and one report lists three sightings in
\* another order than the group's, two of them under the same search label
C12_Witness ==
    /\ pc = "done"
    /\ Len(printed) = 2
    /\ \E report \in Reports :
          /\ Len(report.html.listed) = 3
          /\ report.html.listed # MatchupOf(report).papers
          /\ \E i, j \in 1..3 :
                /\ i < j
                /\ report.html.listed[i] # report.html.listed[j]
                /\ report.html.listed[i].search = report.html.listed[j].search

(***************************************************************************)
(* One title seen twice, already in the bibliography (specification Spec). *)
(***************************************************************************)
\* two sightings without DOI whose titles differ in case and punctuation
SightingPlain == MkPaper(TitleFull, None, SearchB, "lee", "WOSPaper", FALSE)
SightingShouted == MkPaper(TitleVariant, None, SearchA, "kim", "SDPaper", FALSE)

\* the bibliography holds one entry, under the normalized title, and the
\* run ingested the two sightings
OneTitleSeenTwice ==
    /\ culLib = <<CulA>>
    /\ arrivals = <<SightingPlain, SightingShouted>>

\* C13 (as claimed): with one bibliography entry under the normalized title
\* and two DOI-less sightings of that title in different case and
\* punctuation, the run makes one group, one Matchup holding the entry
\* (found by title), and reports it as Known with both sightings listed.
C13_EndToEnd ==
    (OneTitleSeenTwice /\ MatchupLoopEnded) =>
        /\ GroupKeys = {KeyFull}
        /\ Groups[KeyFull] = arrivals
        /\ DOMAIN byLowerTitle = {KeyFull}
        /\ byLowerTitle[KeyFull].papers = arrivals
        /\ byLowerTitle[KeyFull].culEntries = PyList(<<CulA>>)
        /\ pc = "done" =>
              /\ Len(printed) = 1
              /\ printed[1].html.kind = "Known"
              /\ Len(printed[1].html.listed) = 2

(***************************************************************************)
(* The whole pipeline: MAIN as it runs, and the report, the write-back and *)
(* the next run over Matchups built by Matchup().                          *)
(***************************************************************************)
InitPipeline == Init \/ InitMatchup

NextPipeline ==
    \/ AddPaper
    \/ VerifyConsistentDois
    \/ VerifyConsistent1stAuthor
    \/ MatchupLoop
    \/ ReportLoop
    \/ WriteHistory
    \/ NextRun

SpecPipeline == InitPipeline /\ [][NextPipeline]_vars

\* the bibliography entries a Matchup holds
EntriesOf(matchup) ==
    {matchup.culEntries.items[i] : i \in 1..Len(matchup.culEntries.items)}

\* C14: no step of the pipeline (ingest, verify, matchup building, report,
\* history write-back, start of the next run) changes the bibliography, and
\* every entry a Matchup holds is an entry of the bibliography, field by
\* field.
C14_BibliographyNeverMutated ==
    /\ [][culLib' = culLib]_vars
    /\ [](\A t \in DOMAIN byLowerTitle :
            EntriesOf(byLowerTitle[t]) \subseteq {culLib[i] : i \in 1..Len(culLib)})

\* a run that reported a Matchup holding two entries and wrote the history,
\* with the bibliography of three entries it started with
C14_Witness ==
    /\ pc = "done"
    /\ historyFile.written
    /\ Len(culLib) = 3
    /\ \E report \in Reports :
          /\ Cardinality(EntriesOf(MatchupOf(report))) = 2
          /\ Len(report.html.culLinks) = 2

\* a run that ingested sightings and verified them against a bibliography
\* of three entries, up to the matchup loop
C14_WitnessIngest ==
    /\ MatchupLoopEnded
    /\ Len(culLib) = 3
    /\ Len(arrivals) = MaxPapers

(***************************************************************************)
(* The primary index (specification Spec).                                 *)
(***************************************************************************)
\* no sighting ingested so far is a GSPaper with a truncated title
NoneTruncated == \A i \in 1..Len(arrivals) : ~IsTruncatedGSPaper(arrivals[i])

\* the sightings ingested so far whose normalized title is key, in arrival
\* order
ArrivalsWithKey(key) == SelectSeq(arrivals, LAMBDA p : strip(p.title) = key)

\* the sizes of the groups of a set of keys, added up
RECURSIVE SumOfGroupSizes(_)
SumOfGroupSizes(keys) ==
    IF keys = {} THEN 0
    ELSE LET key == CHOOSE k \in keys : TRUE
         IN  Len(Groups[key]) + SumOfGroupSizes(keys \ {key})

\* C15: while only non-truncated sightings have been added, the keys of the
\* primary index are the normalized titles of the sightings added, the
\* group of a key holds exactly the sightings with that normalized title
\* (so two sightings share a group iff their normalized titles are equal),
\* in arrival order, and the group sizes add up to the number added.
C15_PrimaryIndexGrouping ==
    NoneTruncated =>
        /\ GroupKeys = {strip(arrivals[i].title) : i \in 1..Len(arrivals)}
        /\ \A key \in GroupKeys : Groups[key] = ArrivalsWithKey(key)
        /\ SumOfGroupSizes(GroupKeys) = Len(arrivals)
        /\ Len(papers.titleOrder) = Cardinality(GroupKeys)

\* three non-truncated sightings in two groups; one group holds two
\* sightings with different titles and different DOIs, in arrival order
C15_Witness ==
    /\ NoneTruncated
    /\ Len(arrivals) = 3
    /\ Cardinality(GroupKeys) = 2
    /\ \E key \in GroupKeys :
          /\ Len(Groups[key]) = 2
          /\ Groups[key][1].title # Groups[key][2].title
          /\ Groups[key][1].doi # Groups[key][2].doi
          /\ arrivals[1] = Groups[key][1]
          /\ arrivals[3] = Groups[key][2]

(***************************************************************************)
(* Truncated titles, in either order (specification Spec).                 *)
(***************************************************************************)
\* cut is a truncated sighting of the paper other is a sighting of: other
\* has the full title cut is a prefix of, or is truncated to the same title
SamePaperCut(cut, other) ==
    /\ IsTruncatedGSPaper(cut)
    /\ \/ (~IsTruncatedGSPaper(other) /\ IsPrefixOf(cut.title, other.title))
       \/ (IsTruncatedGSPaper(other) /\ cut.title = other.title)

\* C16 (as claimed): a truncated sighting that arrives first makes a fresh
\* group, and after the two sightings of one paper, one of them truncated,
\* are ingested, in either order, the index holds one group with both.
C16_ConvergenceEitherOrder ==
    /\ (Len(arrivals) >= 1 /\ IsTruncatedGSPaper(arrivals[1]))
       => /\ raised = None
          /\ getTitleLower(arrivals[1]) \in GroupKeys
          /\ Groups[getTitleLower(arrivals[1])][1] = arrivals[1]
    /\ (/\ Len(arrivals) = 2
        /\ SamePaperCut(arrivals[1], arrivals[2]) \/ SamePaperCut(arrivals[2], arrivals[1]))
       => /\ Cardinality(GroupKeys) = 1
          /\ \E key \in GroupKeys : Groups[key] = arrivals

(***************************************************************************)
(* Output that cannot be encoded (specification SpecMatchup).              *)
(***************************************************************************)
\* every string reportPaper prints of the matchup is ASCII
AsciiOnly(matchup) ==
    \A i \in 1..Len(matchup.papers) :
        IsAscii(matchup.papers[i].title) /\ IsAscii(matchup.papers[i].search)

\* the positions of the output where print() raised UnicodeEncodeError
EncodeErrorPositions == {i \in 1..Len(printed) : printed[i].encodeError}

TitleChars == {"A", "b", "1", "é", " ", "!", "_"}

\* every title of at most MaxTitleLen characters
TitleStrings == UNION {[1..n -> TitleChars] : n \in 0..MaxTitleLen}

mainVars == <<pc, raised, culLib, history, historyout, stdoutEncoding, arrivals,
              papers, doiWarnings, authorWarnings, byLowerTitle, sortedTitles,
              reportPos, printed, counters, historyFile, run, prevNew>>

\* matchPapers.py is not running
MainIdle ==
    /\ raised = None
    /\ culLib = <<>>
    /\ history = HistoryUnbound
    /\ historyout = FALSE
    /\ stdoutEncoding = "utf-8"
    /\ arrivals = <<>>
    /\ papers = NewPaperLibrary
    /\ doiWarnings = <<>>
    /\ authorWarnings = <<>>
    /\ byLowerTitle = EmptyDict
    /\ sortedTitles = <<>>
    /\ reportPos = 1
    /\ printed = <<>>
    /\ counters = NoCounters
    /\ historyFile = NotWritten
    /\ run = "N"
    /\ prevNew = {}

InitTitle ==
    /\ pc = "title"
    /\ MainIdle
    /\ givenTitle \in TitleStrings
    /\ normalized = <<>>
    /\ NoMatchupGiven
    /\ NoCulReport

\* strip(title)
StripTitle ==
    /\ pc = "title"
    /\ normalized = <<>>
    /\ normalized' = <<strip(givenTitle)>>
    /\ UNCHANGED givenTitle
    /\ UNCHANGED <<mainVars, longestVars, culReportVars>>

\* strip(strip(title))
StripAgain ==
    /\ pc = "title"
    /\ Len(normalized) = 1
    /\ normalized' = Append(normalized, strip(normalized[Len(normalized)]))
    /\ UNCHANGED givenTitle
    /\ UNCHANGED <<mainVars, longestVars, culReportVars>>

NextTitle ==
    \/ StripTitle
    \/ StripAgain

SpecTitle == InitTitle /\ [][NextTitle]_vars

\* C18: strip is idempotent: what strip makes of its own result is that
\* result.
C18_StripIdempotent ==
    /\ strip(strip(givenTitle)) = strip(givenTitle)
    /\ \A i, j \in 1..Len(normalized) : normalized[i] = normalized[j]

\* strip was given a title with two runs of removable characters around a
\* letter it lower-cased, and then its own result
C18_Witness ==
    /\ Len(givenTitle) = MaxTitleLen
    /\ ~IsWordChar(givenTitle[1])
    /\ ~IsWordChar(givenTitle[MaxTitleLen])
    /\ normalized = <<(<<"a">>), (<<"a">>)>>

\* C19 (as claimed): the result of strip holds only lower-case letters and
\* digits (no space, no punctuation, no underscore), so that titles that
\* differ in case, spaces and punctuation only have the same result.
C19_OnlyLowerCaseLettersAndDigits ==
    /\ \A i \in 1..Len(normalized) :
          \A k \in 1..Len(normalized[i]) :
              normalized[i][k] \in LowerChars \cup DigitChars \cup OtherLetters
    /\ strip(TitleVariant) = strip(<<"a", "b", "c", "d">>)

(***************************************************************************)
(* The DOI index and the first-author index (specification Spec).          *)
(***************************************************************************)
\* C20 (as claimed): the DOI index has no key for a missing or empty DOI,
\* the first-author index no key for a missing surname, and each index
\* lists under a key exactly the sightings added with that key, in arrival
\* order.
C20_SecondaryIndicesSkipMissingKeys ==
    /\ None \notin DOMAIN papers.byDoi
    /\ "" \notin DOMAIN papers.byDoi
    /\ None \notin DOMAIN papers.by1stAuthorLastNameLower
    /\ raised = None =>
          /\ DOMAIN papers.byDoi =
                {arrivals[i].doi : i \in DoiPositions(arrivals)}
          /\ \A doi \in DOMAIN papers.byDoi :
                papers.byDoi[doi] = SelectSeq(arrivals, LAMBDA p : p.doi = doi)
          /\ \A author \in DOMAIN papers.by1stAuthorLastNameLower :
                papers.by1stAuthorLastNameLower[author] =
                    SelectSeq(arrivals,
                              LAMBDA p : getFirstAuthorLastNameLower(p) = author)

(***************************************************************************)
(* The length caches (specification Spec).                                 *)
(***************************************************************************)
\* the first min(n, length) characters of a string
Prefix(str, n) == SubSeq(str, 1, IF n < Len(str) THEN n ELSE Len(str))

\* the sighting the step ingests
Arriving == arrivals'[Len(arrivals')]

\* the step is a call of addPaper
IsAddPaperStep == pc = "ingest" /\ Len(arrivals') = Len(arrivals) + 1

\* C21 (as claimed): a call of addPaper with a truncated sighting whose
\* normalized title is no key of the primary index, while no cache exists
\* for the length of its title, returns without an exception and leaves a
\* cache for that length that maps, for every group that existed, the
\* prefix of that length of the group's key to the group.
C21_LazyCacheBuild ==
    [][(/\ IsAddPaperStep
        /\ IsTruncatedGSPaper(Arriving)
        /\ getTitleLower(Arriving) \notin GroupKeys
        /\ Len(Arriving.title) \notin DOMAIN papers.titleLenCaches)
       => /\ raised' = None
          /\ Len(Arriving.title) \in DOMAIN papers'.titleLenCaches
          /\ \A key \in GroupKeys :
                /\ Prefix(key, Len(Arriving.title))
                      \in DOMAIN papers'.titleLenCaches[Len(Arriving.title)]
                /\ papers'.titleLenCaches[Len(Arriving.title)]
                      [Prefix(key, Len(Arriving.title))] = key]_vars

\* the lengths for which the index has a cache
CacheLengths == DOMAIN papers.titleLenCaches

\* C22 (as claimed): a non-truncated sighting that creates a group
\* registers it in every cache that exists, under the prefix of the cache's
\* length of its normalized title; and so every cache has, at all times, an
\* entry under the prefix of every group of the primary index.
C22_CacheMaintenance ==
    /\ [][(/\ IsAddPaperStep
           /\ ~IsTruncatedGSPaper(Arriving)
           /\ getTitleLower(Arriving) \notin GroupKeys)
          => \A length \in CacheLengths :
                /\ Prefix(getTitleLower(Arriving), length)
                      \in DOMAIN papers'.titleLenCaches[length]
                /\ papers'.titleLenCaches[length]
                      [Prefix(getTitleLower(Arriving), length)]
                      = getTitleLower(Arriving)]_vars
    /\ [](\A length \in CacheLengths : \A key \in GroupKeys :
            Prefix(key, length) \in DOMAIN papers.titleLenCaches[length])

\* the keys of the groups a truncated normalized title is the beginning of
GroupsBeginningWith(titleLower) ==
    {key \in GroupKeys : IsPrefixOf(titleLower, key)}

TitleBare == <<"a", "b", "c", "d">>

\* sightings of one paper under titles of lengths 4, 5, 5 and 6
SightingsOfOnePaper ==
    {MkPaper(TitleBare, None, SearchA, "lee", "WOSPaper", FALSE),
     MkPaper(TitleFull, None, SearchB, "lee", "WOSPaper", FALSE),
     MkPaper(TitleCutSame, "10.1/a", SearchA, "lee", "SDPaper", FALSE),
     MkPaper(TitleVariant, "10.1/a", SearchB, "lee", "WileyPaper", FALSE)}

\* the groups of at most MaxPapers of these sightings, in every arrival order
GroupsOfOnePaper ==
    {g \in Arrangements(SightingsOfOnePaper) : Len(g) > 0 /\ Len(g) <= MaxPapers}

InitLongest ==
    /\ pc = "longest"
    /\ MainIdle
    /\ NoTitleGiven
    /\ \E g \in GroupsOfOnePaper :
          \E c \in {PyNone, PyList(<<CulA>>), PyList(<<CulA, CulC>>)} :
              givenMatchup = <<Matchup(g, c)>>
    /\ longestTitel = <<>>
    /\ NoCulReport

\* matchup.getPapersLongestTitel()
GetPapersLongestTitel ==
    /\ pc = "longest"
    /\ longestTitel = <<>>
    /\ longestTitel' = <<getPapersLongestTitel(givenMatchup[1])>>
    /\ UNCHANGED givenMatchup
    /\ UNCHANGED <<mainVars, titleVars, culReportVars>>

NextLongest ==
    \/ GetPapersLongestTitel

SpecLongest == InitLongest /\ [][NextLongest]_vars

\* the positions of a group whose title is as long as any title of the group
LongestPositions(group) ==
    {i \in 1..Len(group) :
        \A j \in 1..Len(group) : Len(group[i].title) >= Len(group[j].title)}

\* C24: the title getPapersLongestTitel returns is the title of the first
\* sighting, in arrival order, whose title is at least as long as every
\* title of the group; the bibliography entries of the Matchup have no part
\* in it.
C24_LongestTitle ==
    \A i \in 1..Len(longestTitel) :
        LET group == givenMatchup[1].papers
            first == CHOOSE p \in LongestPositions(group) :
                         \A q \in LongestPositions(group) : p <= q
        IN  /\ longestTitel[i] = group[first].title
            /\ \E p \in 1..Len(group) : longestTitel[i] = group[p].title
            /\ \A p \in 1..Len(group) : Len(longestTitel[i]) >= Len(group[p].title)

\* the call returned the title of the second of three sightings: the first
\* is shorter, the third as long as the second and another title; the
\* Matchup holds two bibliography entries
C24_Witness ==
    /\ Len(longestTitel) = 1
    /\ Len(givenMatchup[1].papers) = 3
    /\ Len(givenMatchup[1].culEntries.items) = 2
    /\ Len(givenMatchup[1].papers[1].title) < Len(givenMatchup[1].papers[2].title)
    /\ Len(givenMatchup[1].papers[3].title) = Len(givenMatchup[1].papers[2].title)
    /\ givenMatchup[1].papers[3].title # givenMatchup[1].papers[2].title
    /\ longestTitel[1] = givenMatchup[1].papers[2].title

(***************************************************************************)
(* The report of a group under another arrival order of its sightings      *)
(* (specification SpecMatchup).                                            *)
(***************************************************************************)
\* the Matchups of the sightings of a Matchup in every arrival order
ReorderedMatchups(matchup) ==
    {Matchup([i \in 1..Len(matchup.papers) |-> matchup.papers[f[i]]],
             matchup.culEntries) : f \in Rearrangements(Len(matchup.papers))}

\* what reportPaper makes of a Matchup under the history of the run
MarkupOf(matchup) == reportPaper(matchup, history, NoCounters).html

SearchLabels(listed) == [i \in 1..Len(listed) |-> listed[i].search]

C26_GroupKeyInvariant ==
    \A key \in GroupKeys :
        /\ Len(Groups[key]) > 0
        /\ key = strip(Groups[key][1].title)
        /\ Matchup(Groups[key], PyNone).lowerTitle = key
        /\ Matchup(Groups[key], PyNone).title = Groups[key][1].title

\* the index holds two groups after three sightings; the first sighting of
\* one group has a title that is not the key, and the run went on to the
\* matchup loop
C26_Witness ==
    /\ MatchupLoopEnded
    /\ Len(arrivals) = 3
    /\ Cardinality(GroupKeys) = 2
    /\ \E key \in GroupKeys :
          /\ Len(Groups[key]) = 2
          /\ Groups[key][1].title # key
          /\ Groups[key][2].title # Groups[key][1].title

(***************************************************************************)
(* The numbers of the reports (specification SpecMatchup).                 *)
(***************************************************************************)
\* the titles among the first n reported whose Matchup has no bibliography
\* entry, and those whose Matchup has one
NewAmong(n) == {i \in 1..n : IsNew(byLowerTitle[sortedTitles[i]])}
KnownAmong(n) == {i \in 1..n : ~IsNew(byLowerTitle[sortedTitles[i]])}

\* C27: the reports of the matchups without bibliography entries, New and
\* Newish alike, are numbered 1, 2, ... in the order of the calls, those of
\* the Known matchups 1, 2, ... likewise; every call of reportPaper adds
\* one to exactly one of the two counters, so the counters add up to the
\* number of calls.
C27_ReportNumbering ==
    /\ [](/\ counters.new = Cardinality(NewAmong(Len(printed)))
          /\ counters.known = Cardinality(KnownAmong(Len(printed)))
          /\ counters.new + counters.known = Len(printed)
          /\ \A i \in 1..Len(printed) :
                ~printed[i].encodeError =>
                    /\ i \in NewAmong(i)
                       => /\ printed[i].html.kind \in {"New", "Newish"}
                          /\ printed[i].html.number = Cardinality(NewAmong(i))
                    /\ i \in KnownAmong(i)
                       => /\ printed[i].html.kind = "Known"
                          /\ printed[i].html.number = Cardinality(KnownAmong(i)))
    /\ [][Len(printed') = Len(printed) + 1
          => \/ /\ counters'.new = counters.new + 1
                /\ counters'.known = counters.known
             \/ /\ counters'.new = counters.new
                /\ counters'.known = counters.known + 1]_vars

\* two reports of matchups without bibliography entry, the first Newish and
\* the second New, numbered 1 and 2
C27_Witness ==
    /\ Len(printed) = 2
    /\ ~printed[1].encodeError
    /\ ~printed[2].encodeError
    /\ printed[1].html.kind = "Newish"
    /\ printed[1].html.number = 1
    /\ printed[2].html.kind = "New"
    /\ printed[2].html.number = 2

\* a Known report and a New report, each the first of its kind
C27_WitnessBothKinds ==
    /\ Len(printed) = 2
    /\ ~printed[1].encodeError
    /\ ~printed[2].encodeError
    /\ {printed[1].html.kind, printed[2].html.kind} = {"Known", "New"}
    /\ printed[1].html.number = 1
    /\ printed[2].html.number = 1

(***************************************************************************)
(* generateCULReport.py (specification SpecCulReport): FastCulLib is built *)
(* of a library, getPapers is called on it, the journal report is made.    *)
(* Journal names are sequences of characters (they are lower-cased and     *)
(* sorted); tags and years are strings; an entry date is a day number, and *)
(* a date that is not given (None) is the empty sequence, a given one a    *)
(* sequence of one day.                                                    *)
(***************************************************************************)
\* a paper of the library: what getTags(), getYear(), getJournalName() and
\* getEntryDate() return
CulPaper(id, tags, year, journalName, entryDate) ==
    [id |-> id, tags |-> tags, year |-> year, journalName |-> journalName,
     entryDate |-> entryDate]

JournalAb == <<"A", "b">>
JournalAbLower == <<"a", "b">>
JournalB1 == <<"B", "1">>
JournalCd == <<"C", "d">>
NoJournal == <<>>

\* the papers libraries are made of, in the order allPapers() lists them
CulPaperPool ==
    <<CulPaper("p1", {"methods"}, "2016", JournalAb, 1),
      CulPaper("p2", {"methods", "tools"}, "2017", JournalAbLower, 2),
      CulPaper("p3", {"tools"}, "2017", JournalB1, 3),
      CulPaper("p4", {}, "unknown", NoJournal, 2),
      CulPaper("p5", {"tools"}, "2016", JournalCd, 1),
      CulPaper("p6", {"methods"}, "2017", JournalCd, 3)>>

\* culLib.allPapers() of every library
CulLibraries ==
    {SelectSeq(CulPaperPool, LAMBDA p : p.id \in ids) :
        ids \in SUBSET {CulPaperPool[i].id : i \in 1..Len(CulPaperPool)}}

\* frozenset(allPapers)
AllPapers(allPapers) == {allPapers[i] : i \in 1..Len(allPapers)}

\* FastCulLib.__init__, lines 26-90
FastCulLib(allPapers) ==
    LET all == AllPapers(allPapers)
        journals == {Lower(p.journalName) : p \in all} \ {<<>>}
        sortedByJournal == SortedStrs(journals)
    IN  [allPapers |-> allPapers,
         byYear |-> [year \in {p.year : p \in all} |-> {p \in all : p.year = year}],
         byTag |-> [tag \in UNION {p.tags : p \in all} |->
                       {p \in all : tag \in p.tags}],
         byJournal |-> [jrnl \in journals |->
                           {p \in all : Lower(p.journalName) = jrnl}],
         journalAlphaRank |->
             [jrnl \in journals |->
                 (CHOOSE idx \in 1..Len(sortedByJournal) :
                      sortedByJournal[idx] = jrnl) - 1]]

\* Python truthiness of an argument of getPapers: None and the empty string
\* are false (both are the empty sequence for a journal name or a date)
Given(arg) == arg # None /\ arg # ""
GivenSeq(arg) == Len(arg) > 0

\* the intersection of a sequence of sets that is not empty (lines 152-157)
RECURSIVE IntersectionFrom(_, _, _)
IntersectionFrom(sets, i, selected) ==
    IF i > Len(sets) THEN selected
    ELSE IntersectionFrom(sets, i + 1, selected \cap sets[i])

\* lines 163-170: does the paper pass the date restrictions
InSoFar(paper, startDate, endDate) ==
    IF GivenSeq(startDate) /\ paper.entryDate < startDate[1] THEN FALSE
    ELSE IF GivenSeq(endDate) /\ paper.entryDate > endDate[1] THEN FALSE
    ELSE TRUE

\* FastCulLib.getPapers, lines 135-176: the papers selected (as a set: the
\* list of line 172 holds each once, in no order of note), or the KeyError
\* of indexing byTag, byYear or byJournal with a key it lacks
getPapers(lib, tag, year, journal, startDate, endDate) ==
    LET sets == (IF Given(tag) THEN <<lib.byTag[tag]>> ELSE <<>>)
                \o (IF Given(year) THEN <<lib.byYear[year]>> ELSE <<>>)
                \o (IF GivenSeq(journal) THEN <<lib.byJournal[journal]>> ELSE <<>>)
        selected == IF Len(sets) > 0 THEN IntersectionFrom(sets, 1, sets[1])
                    ELSE AllPapers(lib.allPapers)
    IN  IF \/ (Given(tag) /\ tag \notin DOMAIN lib.byTag)
           \/ (Given(year) /\ year \notin DOMAIN lib.byYear)
           \/ (GivenSeq(journal) /\ journal \notin DOMAIN lib.byJournal)
        THEN [raised |-> "KeyError", selected |-> {}]
        ELSE IF GivenSeq(startDate) \/ GivenSeq(endDate)
        THEN [raised |-> None,
              selected |-> {p \in selected : InSoFar(p, startDate, endDate)}]
        ELSE [raised |-> None, selected |-> selected]

\* the arguments getPapers is called with
TagArgs == {None, "methods", "tools", "workbench"}
YearArgs == {None, "2016", "2017", "1999"}
JournalArgs == {<<>>, JournalAbLower, Lower(JournalB1), JournalAb}
DateArgs == {<<>>, <<2>>}

InitCulReport ==
    /\ pc = "culReport"
    /\ MainIdle
    /\ NoTitleGiven
    /\ NoMatchupGiven
    /\ \E allPapers \in CulLibraries : fastCulLib = <<FastCulLib(allPapers)>>
    /\ queried = <<>>
    /\ journalReport = <<>>

\* fastCulLib.getPapers(tag, year, journal, startDate, endDate)
GetPapers ==
    /\ pc = "culReport"
    /\ queried = <<>>
    /\ \E tag \in TagArgs, year \in YearArgs, journal \in JournalArgs,
          startDate \in DateArgs, endDate \in DateArgs :
          queried' = <<[tag |-> tag, year |-> year, journal |-> journal,
                        startDate |-> startDate, endDate |-> endDate,
                        outcome |-> getPapers(fastCulLib[1], tag, year, journal,
                                              startDate, endDate)]>>
    /\ UNCHANGED <<fastCulLib, journalReport>>
    /\ UNCHANGED <<mainVars, titleVars, longestVars>>

\* the 0.000001 of keySortTotalName, as the number it divides by
AlphaRankWeight == 1000000

\* the key with the alphabetical rank added instead of subtracted
keySortTotalName_PlusRank(lib, journalName) ==
    Cardinality(getPapers(lib, None, None, Lower(journalName), <<>>, <<>>).selected)
        * AlphaRankWeight + lib.journalAlphaRank[journalName]

\* FastCulLib.getJournalTotalCount, lines 112-116
getJournalTotalCount(lib, journalName) ==
    Cardinality(getPapers(lib, None, None, Lower(journalName), <<>>, <<>>).selected)

\* FastCulLib.keySortTotalName, lines 119-125: count - rank * 0.000001,
\* here multiplied by AlphaRankWeight to stay an integer
keySortTotalName(lib, journalName) ==
    getJournalTotalCount(lib, journalName) * AlphaRankWeight
        - lib.journalAlphaRank[journalName]

\* sorted(names, key=self.keySortTotalName, reverse=True): the greatest key
\* first (no two names have the same key)
RECURSIVE SortedByTotalName(_, _)
SortedByTotalName(lib, names) ==
    IF names = {} THEN <<>>
    ELSE LET top == CHOOSE name \in names :
                        \A other \in names \ {name} :
                            keySortTotalName(lib, name) > keySortTotalName(lib, other)
         IN  <<top>> \o SortedByTotalName(lib, names \ {top})

\* FastCulLib.getJournalsByTotal, lines 127-132
getJournalsByTotal(lib) == SortedByTotalName(lib, DOMAIN lib.byJournal)

\* genHtmlJournalReport, lines 468-493: the rows of the journals from
\* position i of names on; a row shows its number, the journal, the
\* journal's total and its rank
RECURSIVE JournalRowsFrom(_, _, _, _, _)
JournalRowsFrom(lib, names, journalNum, journalRank, previousScore) ==
    IF journalNum > Len(names) THEN <<>>
    ELSE LET journalName == names[journalNum]
             journalTotalPapers == getJournalTotalCount(lib, journalName)
             rank == IF previousScore # journalTotalPapers
                     THEN journalNum ELSE journalRank
         IN  <<[journalNum |-> journalNum, journalName |-> journalName,
                total |-> journalTotalPapers, rank |-> rank]>>
             \o JournalRowsFrom(lib, names, journalNum + 1, rank, journalTotalPapers)

genHtmlJournalReport(lib) == JournalRowsFrom(lib, getJournalsByTotal(lib), 1, 0, 0)

\* genHtmlJournalReport(fastCulLib)
GenHtmlJournalReport ==
    /\ pc = "culReport"
    /\ journalReport = <<>>
    /\ journalReport' = <<genHtmlJournalReport(fastCulLib[1])>>
    /\ UNCHANGED <<fastCulLib, queried>>
    /\ UNCHANGED <<mainVars, titleVars, longestVars>>

NextCulReport ==
    \/ GetPapers
    \/ GenHtmlJournalReport

SpecCulReport == InitCulReport /\ [][NextCulReport]_vars

\* the papers of the library that satisfy the restrictions of a call
Satisfying(call) ==
    {p \in AllPapers(fastCulLib[1].allPapers) :
        /\ Given(call.tag) => call.tag \in p.tags
        /\ Given(call.year) => p.year = call.year
        /\ GivenSeq(call.journal) => p.journalName = call.journal
        /\ GivenSeq(call.startDate) => p.entryDate >= call.startDate[1]
        /\ GivenSeq(call.endDate) => p.entryDate <= call.endDate[1]}

SatisfyingLowerCased(call) ==
    {p \in AllPapers(fastCulLib[1].allPapers) :
        /\ Given(call.tag) => call.tag \in p.tags
        /\ Given(call.year) => p.year = call.year
        /\ GivenSeq(call.journal) => Lower(p.journalName) = call.journal
        /\ GivenSeq(call.startDate) => p.entryDate >= call.startDate[1]
        /\ GivenSeq(call.endDate) => p.entryDate <= call.endDate[1]}

\* what getPapers does do: it raises KeyError exactly when a given tag,
\* year or journal is one no paper of the library has (a journal name as
\* lower-cased), and returns the papers that satisfy the restrictions
\* otherwise
GetPapersOnKnownKeys ==
    \A i \in 1..Len(queried) :
        LET all == AllPapers(fastCulLib[1].allPapers)
            call == queried[i]
        IN  /\ call.outcome.raised = None
               => call.outcome.selected = SatisfyingLowerCased(call)
            /\ call.outcome.raised = "KeyError" <=>
                  \/ (Given(call.tag) /\ \A p \in all : call.tag \notin p.tags)
                  \/ (Given(call.year) /\ \A p \in all : call.year # p.year)
                  \/ (GivenSeq(call.journal)
                      /\ \A p \in all : call.journal # Lower(p.journalName))

\* the rows of the journal report that was generated
ReportRows == journalReport[1]

\* C29: the journal report lists every journal once, in descending order of
\* its total number of papers and, for equal totals, in ascending
\* alphabetical order of the journal name; the rows are numbered 1..m; the
\* rank of a row is the number of the first row that has the same total
C29_JournalRanking ==
    Len(journalReport) = 1 =>
        LET lib == fastCulLib[1]
            m == Len(ReportRows)
        IN  /\ {ReportRows[i].journalName : i \in 1..m} = DOMAIN lib.byJournal
            /\ m = Cardinality(DOMAIN lib.byJournal)
            /\ \A i \in 1..m :
                   /\ ReportRows[i].journalNum = i
                   /\ ReportRows[i].total
                          = Cardinality(lib.byJournal[ReportRows[i].journalName])
                   /\ ReportRows[i].rank
                          = CHOOSE k \in 1..i :
                                /\ ReportRows[k].total = ReportRows[i].total
                                /\ \A j \in 1..(k - 1) :
                                       ReportRows[j].total # ReportRows[i].total
            /\ \A i, j \in 1..m :
                   i < j =>
                       \/ ReportRows[i].total > ReportRows[j].total
                       \/ /\ ReportRows[i].total = ReportRows[j].total
                          /\ StrLess(ReportRows[i].journalName,
                                     ReportRows[j].journalName)

\* a report of three journals where the first two are tied, share rank 1 and
\* stand in alphabetical order, and the third has rank 3
C29_Witness ==
    /\ Len(journalReport) = 1
    /\ Len(ReportRows) = 3
    /\ ReportRows[1].total = 2 /\ ReportRows[2].total = 2 /\ ReportRows[3].total = 1
    /\ ReportRows[1].rank = 1 /\ ReportRows[2].rank = 1 /\ ReportRows[3].rank = 3
    /\ StrLess(ReportRows[3].journalName, ReportRows[2].journalName)

\* a report where a journal later in the alphabet comes first, because it
\* has more papers, and the two journals after it share rank 2
C29_WitnessTieAfterLeader ==
    /\ Len(journalReport) = 1
    /\ Len(ReportRows) = 3
    /\ ReportRows[1].total = 2 /\ ReportRows[2].total = 1 /\ ReportRows[3].total = 1
    /\ ReportRows[2].rank = 2 /\ ReportRows[3].rank = 2
    /\ StrLess(ReportRows[2].journalName, ReportRows[1].journalName)

====
